---- MODULE Spec2Model ----
(***************************************************************************)
(* fabtools.git: clone, pull and checkout build one shell command string   *)
(* and hand it to one of the remote-execution primitives run, run_as_root  *)
(* and sudo; pull and checkout do so inside a `with cd(path)` scope.       *)
(*                                                                         *)
(* A call is modelled in two parts: the action named after the function    *)
(* runs the function body up to the (blocking) primitive invocation; the   *)
(* remote host then executes the command (RemoteStep) and the primitive    *)
(* returns (PrimReturn) or raises (PrimRaise), which finishes the body:    *)
(* the with-block is left and the outcome reaches the caller.              *)
(***************************************************************************)
EXTENDS Naturals, Sequences, FiniteSets

\* ---------------------------------------------------------------- bounds

\* Number of clone/pull/checkout calls made in one behaviour.
MaxOps == 3

\* ------------------------------------------------------------ input sets

\* Python's None, and the marker of a keyword argument left out of a call /
\* of an argument a primitive is not given. Neither is a value of the
\* string sets below.
None == "<None>"
Omitted == "<omitted>"
NoArg == "<no-arg>"
NA == "<n/a>"

Urls == {"git://host/repo.git", "ssh://git@host/my repo.git"}
Paths == {"/srv/app", "/srv/other dir"}
PathArgs == Paths \cup {None}
Users == {"alice", "bob"}
UserArgs == Users \cup {None}
Branches == {"develop", "feature/x"}
BranchArgs == Branches \cup {Omitted}

\* Working directories the caller may have in force around the calls
\* (fabric's env.cwd: "" by default, or the caller's own cd scope).
InitialCwdStacks == {<<"">>, <<"", "/home/deploy">>}

\* Exit statuses of one remote command, and the ways a primitive fails.
Statuses == {0, 1}
Failures == {"nonzero-exit", "transport"}

\* ------------------------------------------------------------- variables

VARIABLES
  cwdStack,   \* directories of the cd scopes in force, innermost last
  cwd0,       \* cwdStack before the first call of the behaviour
  pc,         \* "idle": no call in progress; "exec": blocked in a primitive
  cur,        \* arguments of the call in progress / of the last call
  invoked,    \* primitive invocations made by that call, in order
  ran,        \* simple commands the remote shell ran for the invocation
  raised,     \* what the primitive raised (NA when it did not)
  result,     \* what the caller got from the last finished call
  nops,       \* calls started
  ncalls,     \* primitive invocations made, over all calls
  failedScoped \* history: some pull/checkout ended in a remote failure

vars ==
  <<cwdStack, cwd0, pc, cur, invoked, ran, raised, result, nops, ncalls,
    failedScoped>>

\* ----------------------------------------------------- pure definitions

Cwd(stack) == stack[Len(stack)]

\* `with cd(path):` entered: path becomes the working directory (cd is
\* fabric's; the paths of Paths are absolute, so the scope is path itself).
cd_enter(stack, path) == Append(stack, path)

\* Mutant: the directory is restored on the normal exit only.
with_exit_noFinally(op, stack, failed) ==
  IF op \in {"pull", "checkout"} /\ ~failed
  THEN SubSeq(stack, 1, Len(stack) - 1)
  ELSE stack

\* Leaving the with-block of pull/checkout, normally or by an exception
\* (the context manager's exit runs on both); clone has no with-block.
with_exit(op, stack, failed) ==
  IF op \in {"pull", "checkout"}
  THEN SubSeq(stack, 1, Len(stack) - 1)
  ELSE stack

\* Mutant: the path is shell-quoted before it is interpolated.
clone_cmd_quoted(remote_url, path) ==
  LET cmd == "git clone --quiet " \o remote_url
  IN  IF path # None THEN cmd \o (" '" \o path \o "'") ELSE cmd

\* cmd = 'git clone --quiet %s' % remote_url; if path is not None: + ' %s'
clone_cmd(remote_url, path) ==
  LET cmd == "git clone --quiet " \o remote_url
  IN  IF path # None THEN cmd \o (" " \o path) ELSE cmd

\* Mutant: the pull step is made conditional on the stash step.
pull_cmd_andList(stash) ==
  LET cmd == "git pull"
  IN  IF stash THEN "(git stash && " \o cmd \o ")" ELSE cmd

\* cmd = 'git pull'; if stash: cmd = "(git stash; %s)" % cmd
pull_cmd(stash) ==
  LET cmd == "git pull"
  IN  IF stash THEN "(git stash; " \o cmd \o ")" ELSE cmd

\* Mutant: the default of branch is no branch name at all.
checkout_cmd_noDefault(branch) ==
  LET b == IF branch = Omitted THEN "" ELSE branch
  IN  "git checkout " \o b

\* def checkout(path, branch="master", ...): cmd = 'git checkout %s' % branch
checkout_cmd(branch) ==
  LET b == IF branch = Omitted THEN "master" ELSE branch
  IN  "git checkout " \o b

\* Mutant: a given user selects sudo whatever use_sudo is.
clone_dispatch_userFirst(cmd, use_sudo, user) ==
  IF user # None THEN [prim |-> "sudo", cmd |-> cmd, user |-> user]
  ELSE IF use_sudo THEN [prim |-> "run_as_root", cmd |-> cmd, user |-> NoArg]
  ELSE [prim |-> "run", cmd |-> cmd, user |-> NoArg]

\* Mutant: the two privileged branches are swapped.
pull_dispatch_swapped(cmd, use_sudo, user) ==
  IF use_sudo /\ user # None THEN [prim |-> "run_as_root", cmd |-> cmd, user |-> NoArg]
  ELSE IF use_sudo THEN [prim |-> "sudo", cmd |-> cmd, user |-> user]
  ELSE [prim |-> "run", cmd |-> cmd, user |-> NoArg]

\* if use_sudo and user is None: run_as_root(cmd)
\* elif use_sudo: sudo(cmd, user=user)   else: run(cmd)
clone_dispatch(cmd, use_sudo, user) ==
  IF use_sudo /\ user = None THEN [prim |-> "run_as_root", cmd |-> cmd, user |-> NoArg]
  ELSE IF use_sudo THEN [prim |-> "sudo", cmd |-> cmd, user |-> user]
  ELSE [prim |-> "run", cmd |-> cmd, user |-> NoArg]

pull_dispatch(cmd, use_sudo, user) ==
  IF use_sudo /\ user = None THEN [prim |-> "run_as_root", cmd |-> cmd, user |-> NoArg]
  ELSE IF use_sudo THEN [prim |-> "sudo", cmd |-> cmd, user |-> user]
  ELSE [prim |-> "run", cmd |-> cmd, user |-> NoArg]

checkout_dispatch(cmd, use_sudo, user) ==
  IF use_sudo /\ user = None THEN [prim |-> "run_as_root", cmd |-> cmd, user |-> NoArg]
  ELSE IF use_sudo THEN [prim |-> "sudo", cmd |-> cmd, user |-> user]
  ELSE [prim |-> "run", cmd |-> cmd, user |-> NoArg]

\* One primitive invocation as the remote side sees it: the dispatch, and
\* the working directory and scope depth in force when it is made.
Invocation(d, stack) ==
  [prim |-> d.prim, cmd |-> d.cmd, user |-> d.user,
   cwd |-> Cwd(stack), depth |-> Len(stack)]

\* The simple commands of a command line as the remote shell runs them:
\* "(A; B)" is a subshell list, A then B whatever A's status, and its status
\* is B's; any other command this module builds is one simple command.
ShellSteps(cmd) ==
  IF cmd = "(git stash; git pull)" THEN <<"git stash", "git pull">> ELSE <<cmd>>

\* Mutant: the failure is caught and re-raised as an invalid-argument error.
propagate_translated(failure) == [kind |-> "ValueError", exc |-> "remote command failed"]

\* No except clause anywhere: what the primitive raises is what the caller
\* gets.
propagate(failure) == [kind |-> "RemoteFailure", exc |-> failure]

ValueErrorPull ==
  "Path to the working copy is needed to pull from a remote repository."
ValueErrorCheckout ==
  "Path to the working copy is needed to checkout a branch"

\* ------------------------------------------------------------------ Init

Init ==
  /\ cwdStack \in InitialCwdStacks
  /\ cwd0 = cwdStack
  /\ pc = "idle"
  /\ cur = [op |-> NA, remote_url |-> NA, path |-> NA, branch |-> NA,
            use_sudo |-> FALSE, user |-> NA, stash |-> FALSE]
  /\ invoked = <<>>
  /\ ran = <<>>
  /\ raised = NA
  /\ result = [kind |-> "none", exc |-> NA]
  /\ nops = 0
  /\ ncalls = 0
  /\ failedScoped = FALSE

\* --------------------------------------------------------------- actions

\* Mutant: clone changes into path, as pull and checkout do.
clone_scoped(remote_url, path, use_sudo, user) ==
  /\ pc = "idle"
  /\ nops < MaxOps
  /\ nops' = nops + 1
  /\ cur' = [op |-> "clone", remote_url |-> remote_url, path |-> path,
             branch |-> NA, use_sudo |-> use_sudo, user |-> user,
             stash |-> FALSE]
  /\ LET cmd == clone_cmd(remote_url, path)
         scoped == IF path # None THEN cd_enter(cwdStack, path) ELSE cwdStack
     IN  /\ cwdStack' = scoped
         /\ invoked' = <<Invocation(clone_dispatch(cmd, use_sudo, user), scoped)>>
  /\ ncalls' = ncalls + 1
  /\ ran' = <<>>
  /\ raised' = NA
  /\ result' = [kind |-> "none", exc |-> NA]
  /\ pc' = "exec"
  /\ UNCHANGED <<cwd0, failedScoped>>

clone(remote_url, path, use_sudo, user) ==
  /\ pc = "idle"
  /\ nops < MaxOps
  /\ nops' = nops + 1
  /\ cur' = [op |-> "clone", remote_url |-> remote_url, path |-> path,
             branch |-> NA, use_sudo |-> use_sudo, user |-> user,
             stash |-> FALSE]
  /\ LET cmd == clone_cmd(remote_url, path)
     IN  invoked' = <<Invocation(clone_dispatch(cmd, use_sudo, user), cwdStack)>>
  /\ ncalls' = ncalls + 1
  /\ ran' = <<>>
  /\ raised' = NA
  /\ result' = [kind |-> "none", exc |-> NA]
  /\ pc' = "exec"
  /\ UNCHANGED <<cwdStack, cwd0, failedScoped>>

\* Mutant: the command is dispatched before the with-block is entered.
pull_unscoped(path, use_sudo, user, stash) ==
  /\ pc = "idle"
  /\ nops < MaxOps
  /\ nops' = nops + 1
  /\ cur' = [op |-> "pull", remote_url |-> NA, path |-> path,
             branch |-> NA, use_sudo |-> use_sudo, user |-> user,
             stash |-> stash]
  /\ ran' = <<>>
  /\ raised' = NA
  /\ IF path = None
     THEN /\ result' = [kind |-> "ValueError", exc |-> ValueErrorPull]
          /\ invoked' = <<>>
          /\ pc' = "idle"
          /\ UNCHANGED <<cwdStack, cwd0, ncalls, failedScoped>>
     ELSE LET cmd == pull_cmd(stash)
              scoped == cd_enter(cwdStack, path)
          IN  /\ cwdStack' = scoped
              /\ invoked' = <<Invocation(pull_dispatch(cmd, use_sudo, user), cwdStack)>>
              /\ ncalls' = ncalls + 1
              /\ result' = [kind |-> "none", exc |-> NA]
              /\ pc' = "exec"
              /\ UNCHANGED <<cwd0, failedScoped>>

pull(path, use_sudo, user, stash) ==
  /\ pc = "idle"
  /\ nops < MaxOps
  /\ nops' = nops + 1
  /\ cur' = [op |-> "pull", remote_url |-> NA, path |-> path,
             branch |-> NA, use_sudo |-> use_sudo, user |-> user,
             stash |-> stash]
  /\ ran' = <<>>
  /\ raised' = NA
  /\ IF path = None
     THEN /\ result' = [kind |-> "ValueError", exc |-> ValueErrorPull]
          /\ invoked' = <<>>
          /\ pc' = "idle"
          /\ UNCHANGED <<cwdStack, cwd0, ncalls, failedScoped>>
     ELSE LET cmd == pull_cmd(stash)
              scoped == cd_enter(cwdStack, path)
          IN  /\ cwdStack' = scoped
              /\ invoked' = <<Invocation(pull_dispatch(cmd, use_sudo, user), scoped)>>
              /\ ncalls' = ncalls + 1
              /\ result' = [kind |-> "none", exc |-> NA]
              /\ pc' = "exec"
              /\ UNCHANGED <<cwd0, failedScoped>>

\* Mutant: the path check is missing and the body runs on.
checkout_unchecked(path, branch, use_sudo, user) ==
  /\ pc = "idle"
  /\ nops < MaxOps
  /\ nops' = nops + 1
  /\ cur' = [op |-> "checkout", remote_url |-> NA, path |-> path,
             branch |-> branch, use_sudo |-> use_sudo, user |-> user,
             stash |-> FALSE]
  /\ ran' = <<>>
  /\ raised' = NA
  /\ LET cmd == checkout_cmd(branch)
         scoped == cd_enter(cwdStack, IF path = None THEN Cwd(cwdStack) ELSE path)
     IN  /\ cwdStack' = scoped
         /\ invoked' = <<Invocation(checkout_dispatch(cmd, use_sudo, user), scoped)>>
         /\ ncalls' = ncalls + 1
         /\ result' = [kind |-> "none", exc |-> NA]
         /\ pc' = "exec"
         /\ UNCHANGED <<cwd0, failedScoped>>

checkout(path, branch, use_sudo, user) ==
  /\ pc = "idle"
  /\ nops < MaxOps
  /\ nops' = nops + 1
  /\ cur' = [op |-> "checkout", remote_url |-> NA, path |-> path,
             branch |-> branch, use_sudo |-> use_sudo, user |-> user,
             stash |-> FALSE]
  /\ ran' = <<>>
  /\ raised' = NA
  /\ IF path = None
     THEN /\ result' = [kind |-> "ValueError", exc |-> ValueErrorCheckout]
          /\ invoked' = <<>>
          /\ pc' = "idle"
          /\ UNCHANGED <<cwdStack, cwd0, ncalls, failedScoped>>
     ELSE LET cmd == checkout_cmd(branch)
              scoped == cd_enter(cwdStack, path)
          IN  /\ cwdStack' = scoped
              /\ invoked' = <<Invocation(checkout_dispatch(cmd, use_sudo, user), scoped)>>
              /\ ncalls' = ncalls + 1
              /\ result' = [kind |-> "none", exc |-> NA]
              /\ pc' = "exec"
              /\ UNCHANGED <<cwd0, failedScoped>>

\* The remote shell runs the next simple command of the invoked command
\* line; its exit status is the remote host's business.
RemoteStep ==
  /\ pc = "exec"
  /\ LET steps == ShellSteps(invoked[Len(invoked)].cmd)
     IN  /\ Len(ran) < Len(steps)
         /\ \E st \in Statuses :
              ran' = Append(ran, [cmd |-> steps[Len(ran) + 1], status |-> st])
  /\ UNCHANGED <<cwdStack, cwd0, pc, cur, invoked, raised, result, nops, ncalls,
               failedScoped>>

\* The command line finished with status 0: the primitive returns, the
\* with-block (if any) is left and the function returns.
PrimReturn ==
  /\ pc = "exec"
  /\ Len(ran) = Len(ShellSteps(invoked[Len(invoked)].cmd))
  /\ ran[Len(ran)].status = 0
  /\ cwdStack' = with_exit(cur.op, cwdStack, FALSE)
  /\ result' = [kind |-> "ok", exc |-> NA]
  /\ pc' = "idle"
  /\ UNCHANGED <<cwd0, cur, invoked, ran, raised, nops, ncalls, failedScoped>>

\* The command line finished with a non-zero status, or the transport
\* failed at any point: the primitive raises, the with-block (if any) is
\* left by the exception and the exception reaches the caller.
PrimRaise ==
  /\ pc = "exec"
  /\ \E f \in Failures :
       /\ f = "nonzero-exit" =>
            /\ Len(ran) = Len(ShellSteps(invoked[Len(invoked)].cmd))
            /\ ran[Len(ran)].status # 0
       /\ raised' = f
       /\ result' = propagate(f)
  /\ cwdStack' = with_exit(cur.op, cwdStack, TRUE)
  /\ pc' = "idle"
  /\ failedScoped' = (failedScoped \/ cur.op \in {"pull", "checkout"})
  /\ UNCHANGED <<cwd0, cur, invoked, ran, nops, ncalls>>

Next ==
  \/ \E u \in Urls, p \in PathArgs, s \in BOOLEAN, w \in UserArgs :
       clone(u, p, s, w)
  \/ \E p \in PathArgs, s \in BOOLEAN, w \in UserArgs, st \in BOOLEAN :
       pull(p, s, w, st)
  \/ \E p \in PathArgs, b \in BranchArgs, s \in BOOLEAN, w \in UserArgs :
       checkout(p, b, s, w)
  \/ RemoteStep
  \/ PrimReturn
  \/ PrimRaise

Spec == Init /\ [][Next]_vars

\* ---------------------------------------------------------------- claims

\* The call in progress (or the last one) got past argument validation.
Dispatched == cur.op = "clone" \/ (cur.op \in {"pull", "checkout"} /\ cur.path # None)

\* The primitive, and the user it is given, that the dispatch rule of the
\* documentation selects for a call's use_sudo and user.
RulePrim(use_sudo, user) ==
  IF ~use_sudo THEN "run" ELSE IF user = None THEN "run_as_root" ELSE "sudo"

RuleUser(use_sudo, user) ==
  IF use_sudo /\ user # None THEN user ELSE NoArg

\* The command line documented for a call with arguments c, written out
\* for the values of the input sets.
ExpectedClone ==
  [u \in Urls |-> [p \in PathArgs |->
    IF u = "git://host/repo.git"
    THEN IF p = None THEN "git clone --quiet git://host/repo.git"
         ELSE IF p = "/srv/app" THEN "git clone --quiet git://host/repo.git /srv/app"
         ELSE "git clone --quiet git://host/repo.git /srv/other dir"
    ELSE IF p = None THEN "git clone --quiet ssh://git@host/my repo.git"
         ELSE IF p = "/srv/app" THEN "git clone --quiet ssh://git@host/my repo.git /srv/app"
         ELSE "git clone --quiet ssh://git@host/my repo.git /srv/other dir"]]

ExpectedCmd(c) ==
  IF c.op = "clone" THEN ExpectedClone[c.remote_url][c.path]
  ELSE IF c.op = "pull"
       THEN IF c.stash THEN "(git stash; git pull)" ELSE "git pull"
  ELSE IF c.branch = Omitted THEN "git checkout master"
  ELSE IF c.branch = "develop" THEN "git checkout develop"
  ELSE "git checkout feature/x"

\* The invocation documented for a call with arguments c made with the
\* working-directory scopes `outer` in force.
ExpectedInvocation(c, outer) ==
  [prim |-> RulePrim(c.use_sudo, c.user),
   cmd |-> ExpectedCmd(c),
   user |-> RuleUser(c.use_sudo, c.user),
   cwd |-> IF c.op = "clone" THEN Cwd(outer) ELSE c.path,
   depth |-> IF c.op = "clone" THEN Len(outer) ELSE Len(outer) + 1]

\* C1: every clone, and every pull and checkout with a path, invokes exactly
\* one primitive, selected by use_sudo and user alone: run when use_sudo is
\* false, run_as_root when use_sudo is true and user is None, sudo with that
\* user when use_sudo is true and user is given.
C1_DispatchRule ==
  Dispatched =>
    /\ Len(invoked) = 1
    /\ invoked[1].prim = RulePrim(cur.use_sudo, cur.user)
    /\ invoked[1].prim \in {"run", "run_as_root", "sudo"}
    /\ (invoked[1].prim = "sudo") = (cur.use_sudo /\ cur.user \in Users)
    /\ invoked[1].prim = "sudo" => invoked[1].user = cur.user
    /\ invoked[1].prim # "sudo" => invoked[1].user = NoArg

C1_Witness ==
  /\ cur.op = "checkout" /\ cur.use_sudo /\ cur.user = "alice"
  /\ pc = "idle" /\ result.kind = "ok"
  /\ invoked = <<[prim |-> "sudo", cmd |-> "git checkout develop",
                  user |-> "alice", cwd |-> "/srv/app", depth |-> 3]>>
  /\ nops = 3 /\ ncalls = 3

\* C2: a pull or checkout called with path None ends in that same step with
\* ValueError: no primitive is invoked and no directory scope is entered,
\* whatever use_sudo, user, stash and branch are.
C2_NoPathNoRemote ==
  [][(nops' = nops + 1 /\ cur'.op \in {"pull", "checkout"} /\ cur'.path = None)
       => /\ result'.kind = "ValueError"
          /\ pc' = "idle"
          /\ invoked' = <<>>
          /\ ncalls' = ncalls
          /\ ran' = <<>>
          /\ cwdStack' = cwdStack]_vars

C2_Witness ==
  /\ cur.op = "checkout" /\ cur.path = None /\ cur.use_sudo /\ cur.user = "bob"
  /\ cur.branch = "feature/x"
  /\ result = [kind |-> "ValueError", exc |-> ValueErrorCheckout]
  /\ invoked = <<>> /\ ncalls = 0 /\ nops = 1

\* C3: whenever no call is in progress the working-directory scopes are the
\* ones in force before the first call, also after calls that raised a
\* remote failure; a clone issued after a failed pull or checkout runs in the
\* caller's directory, not in that call's path.
C3_ScopeReleased ==
  /\ pc = "idle" => cwdStack = cwd0
  /\ (cur.op = "clone" /\ failedScoped) =>
       /\ invoked[1].cwd = Cwd(cwd0)
       /\ invoked[1].depth = Len(cwd0)

C3_Witness ==
  /\ failedScoped /\ cur.op = "clone" /\ pc = "exec"
  /\ cwd0 = <<"", "/home/deploy">>
  /\ invoked[1].cwd = "/home/deploy"

\* C4: the command clone hands to its primitive is "git clone --quiet " and
\* the url, followed by a space and the path when a path is given, both
\* unchanged, whatever use_sudo and user are.
C4_CloneCommand ==
  cur.op = "clone" =>
    /\ Len(invoked) = 1
    /\ invoked[1].cmd = ExpectedClone[cur.remote_url][cur.path]
    /\ cur.path = None => invoked[1].cmd = "git clone --quiet " \o cur.remote_url
    /\ cur.path # None =>
         invoked[1].cmd = "git clone --quiet " \o cur.remote_url \o " " \o cur.path

C4_Witness ==
  /\ cur.op = "clone" /\ cur.path = "/srv/other dir" /\ cur.use_sudo
  /\ cur.remote_url = "ssh://git@host/my repo.git"
  /\ invoked[1].cmd = "git clone --quiet ssh://git@host/my repo.git /srv/other dir"
  /\ invoked[1].prim = "run_as_root"

\* C5: a pull with a path issues "(git stash; git pull)" when stash is true
\* and "git pull" when it is false; the primitive is invoked with the scope
\* already set to that path, and the scope stays so until it returns or
\* raises.
C5_PullCommandInScope ==
  (cur.op = "pull" /\ cur.path # None) =>
    /\ Len(invoked) = 1
    /\ invoked[1].cmd = IF cur.stash THEN "(git stash; git pull)" ELSE "git pull"
    /\ invoked[1].cwd = cur.path
    /\ invoked[1].depth = Len(cwd0) + 1
    /\ pc = "exec" => (Cwd(cwdStack) = cur.path /\ Len(cwdStack) = Len(cwd0) + 1)
    /\ pc = "idle" => result.kind \in {"ok", "RemoteFailure"}

C5_Witness ==
  /\ cur.op = "pull" /\ cur.path = "/srv/app" /\ cur.stash /\ pc = "exec"
  /\ Len(ran) = 1
  /\ Cwd(cwdStack) = "/srv/app"
  /\ invoked[1].cmd = "(git stash; git pull)" /\ invoked[1].cwd = "/srv/app"

\* C6: a checkout with a path issues "git checkout " and the branch,
\* "git checkout master" when branch is left out; the primitive is invoked
\* with the scope set to that path, which stays so until it returns or
\* raises.
C6_CheckoutCommandInScope ==
  (cur.op = "checkout" /\ cur.path # None) =>
    /\ Len(invoked) = 1
    /\ invoked[1].cmd = ExpectedCmd(cur)
    /\ cur.branch \in Branches => invoked[1].cmd = "git checkout " \o cur.branch
    /\ invoked[1].cwd = cur.path
    /\ invoked[1].depth = Len(cwd0) + 1
    /\ pc = "exec" => (Cwd(cwdStack) = cur.path /\ Len(cwdStack) = Len(cwd0) + 1)

C6_Witness ==
  /\ cur.op = "checkout" /\ cur.path = "/srv/app" /\ cur.branch = Omitted
  /\ pc = "exec" /\ Cwd(cwdStack) = "/srv/app"
  /\ invoked[1].cmd = "git checkout master" /\ invoked[1].cwd = "/srv/app"

\* C7: with use_sudo false the invocation is the one the same call would
\* make with any other value of user: run, with the same command in the same
\* scope, and no user is passed to it.
C7_UserIgnoredWithoutSudo ==
  (Dispatched /\ ~cur.use_sudo) =>
    /\ Len(invoked) = 1
    /\ invoked[1].prim = "run"
    /\ invoked[1].user = NoArg
    /\ \A u \in UserArgs :
         invoked[1] = ExpectedInvocation([cur EXCEPT !.user = u], cwd0)

C7_Witness ==
  /\ cur.op = "clone" /\ ~cur.use_sudo /\ cur.user = "alice"
  /\ invoked[1].prim = "run" /\ invoked[1].user = NoArg
  /\ pc = "idle" /\ result.kind = "ok"

\* C8: a call makes at most one primitive invocation, one per call over the
\* whole run, and when the primitive raised, the caller gets that very
\* failure and the call is over with no second invocation.
C8_OneCommandNoRetry ==
  /\ Len(invoked) <= 1
  /\ ncalls <= nops
  /\ Dispatched => ncalls >= 1
  /\ raised # NA =>
       /\ pc = "idle"
       /\ Len(invoked) = 1
       /\ result = [kind |-> "RemoteFailure", exc |-> raised]
  /\ result.kind = "RemoteFailure" => (raised \in Failures /\ result.exc = raised)

C8_Witness ==
  /\ raised = "nonzero-exit" /\ cur.op = "clone" /\ pc = "idle"
  /\ result = [kind |-> "RemoteFailure", exc |-> "nonzero-exit"]
  /\ Len(invoked) = 1 /\ ncalls = nops /\ nops = 2

\* C9: a pull with stash true makes one invocation with the one command line
\* "(git stash; git pull)"; on the remote side git stash runs first and
\* git pull after it whatever status git stash ended with, and the caller
\* gets one outcome, success or one remote failure, that is decided by the
\* command line's status and carries no status of the stash step.
C9_StashThenPullOneResult ==
  (cur.op = "pull" /\ cur.stash /\ cur.path # None) =>
    /\ Len(invoked) = 1
    /\ invoked[1].cmd = "(git stash; git pull)"
    /\ Len(ran) <= 2
    /\ \A i \in 1..Len(ran) : ran[i].cmd = <<"git stash", "git pull">>[i]
    /\ (pc = "exec" /\ Len(ran) = 1) => ENABLED RemoteStep
    /\ result.kind = "ok" => (Len(ran) = 2 /\ ran[2].status = 0)
    /\ raised = "nonzero-exit" => (Len(ran) = 2 /\ ran[2].status # 0)
    /\ result \in {[kind |-> "none", exc |-> NA], [kind |-> "ok", exc |-> NA]}
                    \cup {[kind |-> "RemoteFailure", exc |-> f] : f \in Failures}

C9_Witness ==
  /\ cur.op = "pull" /\ cur.stash /\ pc = "idle"
  /\ ran = <<[cmd |-> "git stash", status |-> 1], [cmd |-> "git pull", status |-> 1]>>
  /\ result = [kind |-> "RemoteFailure", exc |-> "nonzero-exit"]

\* C10: clone enters no directory scope and validates nothing: its command is
\* issued in the caller's working directory, the scopes are the caller's
\* throughout the call, and it never ends in ValueError, with or without a
\* path.
C10_CloneUnscoped ==
  cur.op = "clone" =>
    /\ cwdStack = cwd0
    /\ Len(invoked) = 1
    /\ invoked[1].cwd = Cwd(cwd0)
    /\ invoked[1].depth = Len(cwd0)
    /\ result.kind \in {"none", "ok", "RemoteFailure"}

C10_Witness ==
  /\ cur.op = "clone" /\ cur.path = "/srv/app" /\ pc = "exec"
  /\ cwd0 = <<"", "/home/deploy">> /\ cwdStack = cwd0
  /\ invoked[1].cwd = "/home/deploy"

====
